---- MODULE Spec2Model ----
(***************************************************************************)
(* Model of 01-download_data.py: module-level configuration and BigQuery   *)
(* client setup, followed by seven extraction routines that each run one   *)
(* fixed SQL statement, materialise the result as a DataFrame, write it to *)
(* <category dir>/<target_file_name> as CSV and print a confirmation.      *)
(*                                                                         *)
(* The warehouse is modelled by its two tables; every SQL statement is     *)
(* modelled by what it computes over them (grouping, HAVING, INNER JOIN,   *)
(* window sums, ORDER BY).  Abstractions, stated once:                     *)
(*   - amount_usd is an integer, never NULL;                               *)
(*   - charged_on is represented by its month number (the queries only     *)
(*     read EXTRACT(MONTH ...) and EXTRACT(QUARTER ...) of it);            *)
(*   - monthly_charges_2021 has the six columns the queries mention;       *)
(*   - organizations_before_2022 has one row per organization_id; the      *)
(*     columns that are copied through unchanged travel as the org row;    *)
(*   - target_file_name is a plain file name (no directory separator).     *)
(***************************************************************************)
EXTENDS Integers, Sequences, FiniteSets, Bags, TLC

VARIABLES
    saFileEnv,      \* os.getenv('SERVICE_ACCOUNT_FILE'): "absent" or "set"
    projectEnv,     \* os.getenv('PROJECT_ID'): "absent" or "set"
    credFile,       \* the file at BASE_DIR / SERVICE_ACCOUNT_FILE
    setup,          \* position of the module-level code (lines 9-22)
    dirs,           \* RAW_DIR and PROCESSED_DIR on disk
    files,          \* the files under RAW_DIR and PROCESSED_DIR
    charges,        \* table monthly_charges_2021 (a bag of rows)
    orgs,           \* table organizations_before_2022 (set of organization ids)
    pc,             \* per thread: position inside the routine it is running
    routine,        \* per thread: the routine being run
    name,           \* per thread: target_file_name
    df,             \* per thread: the DataFrame returned by to_dataframe()
    err,            \* per thread: the exception that left the routine
    submitted,      \* per thread: queries submitted by the current invocation
    printed,        \* per thread: lines printed by the current invocation
    stdout,         \* per thread: the line printed by the current invocation
    calls,          \* routine invocations started in this run
    queries,        \* queries submitted to the warehouse in this run
    before,         \* per thread: the files as they were when the invocation began
    asof,           \* per thread: the source table as the query read it
    origin,         \* per path: routine and source table of the last write
    result          \* a query result examined on its own

envVars == <<saFileEnv, projectEnv, credFile>>
warehouse == <<charges, orgs>>
locals == <<pc, routine, name, df, err, submitted, printed, stdout, asof>>
counters == <<calls, queries>>

vars == <<envVars, setup, dirs, files, origin, warehouse, locals, counters,
          before, result>>

(***************************************************************************)
(* Bounds of the model.                                                    *)
(***************************************************************************)
MaxCharges == 3     \* rows of monthly_charges_2021 when a query is examined alone
MaxRows == 1        \* rows of monthly_charges_2021 during a pipeline run
MaxCalls == 2       \* routine invocations in one run

(***************************************************************************)
(* Paths (lines 11-14) and the seven routines.                             *)
(***************************************************************************)
RAW_DIR == "raw"
PROCESSED_DIR == "processed"
Categories == {RAW_DIR, PROCESSED_DIR}

Routines == {"get_monthly_charges_2021", "get_orgs_before_2022",
             "get_paying_organizations", "get_churn_numbers",
             "get_outliers_and_mode", "get_groupby_plan", "get_groupby_type"}

Names == {"a.csv", "b.csv"}

\* DestDir with the two table dumps sent to PROCESSED_DIR like the rest.
DestDirAllProcessed(r) == PROCESSED_DIR

\* The directory each routine joins its target_file_name to.
DestDir(r) ==
    IF r \in {"get_monthly_charges_2021", "get_orgs_before_2022"}
    THEN RAW_DIR ELSE PROCESSED_DIR

\* Destination with every routine joining its name to RAW_DIR.
DestinationAllRaw(r, n) == <<RAW_DIR, n>>

\* destination = <DIR> / target_file_name
Destination(r, n) == <<DestDir(r), n>>

Paths == Categories \X Names

(***************************************************************************)
(* The column lists of the seven SELECT statements.                        *)
(***************************************************************************)
ChargeColumns ==
    <<"organization_id", "type", "plan", "charged_on", "is_sales_driven",
      "amount_usd">>

OrgPassThrough ==
    <<"revenue_realized_to_date_usd", "time_entries_count",
      "billable_time_entries_count", "hours_tracked", "billable_hours_tracked",
      "clients_used", "projects_used", "billable_projects_used", "country",
      "industry", "company_type", "approximate_employees",
      "reported_annual_revenue">>

GroupByColumns(key) ==
    <<key, "month", "quarter",
      "monthly_count", "qtr_count", "count_by_" \o key, "total_count",
      "monthly_sales_driven", "qtr_sales_driven", "sales_driven_by_" \o key,
      "total_sales_driven",
      "monthly_revenue", "qtr_revenue", "revenue_by_" \o key, "total_revenue">>

Columns(r) ==
    CASE r = "get_monthly_charges_2021" -> ChargeColumns
      [] r = "get_orgs_before_2022" ->
            <<"organization_id", "organization_owner_id", "created_at",
              "has_active_subscription", "current_subscription_plan",
              "current_billing_period", "first_billed_user_count",
              "revenue_realized_to_date_usd", "time_entries_count",
              "billable_time_entries_count", "hours_tracked",
              "billable_hours_tracked", "clients_used", "projects_used",
              "billable_projects_used", "country", "industry",
              "approximate_employees", "reported_annual_revenue">>
      [] r = "get_paying_organizations" ->
            <<"organization_id", "organization_owner_id", "total_revenue_2021">>
            \o OrgPassThrough
      [] r = "get_churn_numbers" ->
            <<"organization_id", "times_churned", "times_reactivated",
              "times_retained", "revenue">>
      [] r = "get_outliers_and_mode" ->
            <<"organization_id", "total_revenue_2021", "organization_owner_id">>
            \o OrgPassThrough
      [] r = "get_groupby_plan" -> GroupByColumns("plan")
      [] r = "get_groupby_type" -> GroupByColumns("type")

(***************************************************************************)
(* The warehouse tables and the aggregates the queries take over them.     *)
(***************************************************************************)
OrgIds == {"A", "B"}
Plans == {"premium", "starter"}
Types == {"Churned", "Reactivated", "Retained"}
Months == {1, 2, 4}
Amounts == {-50, 0, 100}

\* Collation of the strings that ORDER BY compares.
StrRank(s) ==
    CASE s = "Churned" -> 1 [] s = "Reactivated" -> 2 [] s = "Retained" -> 3
      [] s = "premium" -> 4 [] s = "starter" -> 5 [] s = "A" -> 6 [] s = "B" -> 7

\* Rows a pipeline run may find inserted into monthly_charges_2021.
PipelineCharges ==
    {[organization_id |-> "A", type |-> "Retained", plan |-> "premium",
      charged_on |-> 1, is_sales_driven |-> TRUE, amount_usd |-> 100]}

\* Rows used when the paying-organizations query is examined alone.
RevenueCharges ==
    {[organization_id |-> o, type |-> "Retained", plan |-> "premium",
      charged_on |-> 1, is_sales_driven |-> FALSE, amount_usd |-> a] :
        o \in OrgIds, a \in Amounts}

\* Rows used when the group-by queries are examined alone.
GroupByCharges ==
    {[organization_id |-> "A", type |-> t, plan |-> p, charged_on |-> m,
      is_sales_driven |-> sa[1], amount_usd |-> sa[2]] :
        t \in {"Churned", "Retained"}, p \in Plans, m \in Months,
        sa \in {<<TRUE, 100>>, <<FALSE, -50>>}}

RECURSIVE SumFn(_)
SumFn(f) ==
    IF DOMAIN f = {} THEN 0
    ELSE LET x == CHOOSE y \in DOMAIN f : TRUE
         IN  f[x] + SumFn([y \in DOMAIN f \ {x} |-> f[y]])

\* COUNT(*) over the rows S of monthly_charges_2021
NumCharges(S) == SumFn([c \in S |-> charges[c]])

\* SUM(amount_usd) over the rows S
SumAmount(S) == SumFn([c \in S |-> charges[c] * c.amount_usd])

\* SUM(CASE WHEN is_sales_driven = True THEN 1 ELSE 0 END) over the rows S
NumSalesDriven(S) ==
    SumFn([c \in S |-> IF c.is_sales_driven THEN charges[c] ELSE 0])

\* COUNT(CASE WHEN type = ty THEN 1 ELSE NULL END) over the rows S
CountType(S, ty) == SumFn([c \in S |-> IF c.type = ty THEN charges[c] ELSE 0])

\* GROUP BY organization_id
ChargesOf(o) == {c \in DOMAIN charges : c.organization_id = o}
ChargedOrgs == {c.organization_id : c \in DOMAIN charges}

\* EXTRACT(QUARTER FROM charged_on)
Quarter(m) == ((m - 1) \div 3) + 1

(***************************************************************************)
(* The seven SELECT statements: the rows each produces.                    *)
(***************************************************************************)
\* HAVING SUM(amount_usd) > 0
HavingPositive(total) == total > 0

\* CTE nonzero_earners
NonzeroEarners ==
    {[organization_id |-> o, total_revenue_2021 |-> SumAmount(ChargesOf(o))] :
        o \in {x \in ChargedOrgs : HavingPositive(SumAmount(ChargesOf(x)))}}

\* FROM <cte> a INNER JOIN organizations_before_2022 b
\*   ON a.organization_id = b.organization_id
InnerJoinOrgs(cte) == {a \in cte : a.organization_id \in orgs}

PayingOrganizations == InnerJoinOrgs(NonzeroEarners)

\* The thresholds written into the outlier query.
OutlierAbove == 22000
ModeLow == 90
ModeHigh == 250

\* HAVING (SUM(amount_usd) > 22000) OR (SUM(amount_usd) BETWEEN 90 AND 250)
HavingOutlierOrMode(total) ==
    (total > OutlierAbove) \/ (total >= ModeLow /\ total <= ModeHigh)

OutlierEarners ==
    {[organization_id |-> o, total_revenue_2021 |-> SumAmount(ChargesOf(o))] :
        o \in {x \in ChargedOrgs : HavingOutlierOrMode(SumAmount(ChargesOf(x)))}}

OutliersAndMode == InnerJoinOrgs(OutlierEarners)

ChurnNumbers ==
    {[organization_id |-> o,
      times_churned |-> CountType(ChargesOf(o), "Churned"),
      times_reactivated |-> CountType(ChargesOf(o), "Reactivated"),
      times_retained |-> CountType(ChargesOf(o), "Retained"),
      revenue |-> SumAmount(ChargesOf(o))] : o \in ChargedOrgs}

\* CTE groupedby_plans / groupedby_types: GROUP BY 1,2,3
GroupedBy(key) ==
    LET keys == {<<c[key], Quarter(c.charged_on), c.charged_on>> :
                    c \in DOMAIN charges}
        grp(k) == {c \in DOMAIN charges :
                    <<c[key], Quarter(c.charged_on), c.charged_on>> = k}
    IN  {[category |-> k[1], quarter |-> k[2], month |-> k[3],
          num_charges |-> NumCharges(grp(k)),
          num_sales_driven |-> NumSalesDriven(grp(k)),
          revenue |-> SumAmount(grp(k))] : k \in keys}

\* SUM(field) OVER (PARTITION BY part) evaluated at row g of G
WindowSum(G, g, part, field) ==
    SumFn([h \in {x \in G : \A p \in part : x[p] = g[p]} |-> h[field]])

\* ByMonth with the monthly sums partitioned by quarter.
ByMonthAsQuarter == {"category", "quarter"}

\* The four partitions of the window sums.
ByMonth == {"category", "month"}
ByQuarter == {"category", "quarter"}
ByCategory == {"category"}
Overall == {}

GroupByRows(key) ==
    LET G == GroupedBy(key)
    IN  {[category |-> g.category, month |-> g.month, quarter |-> g.quarter,
          monthly_count |-> WindowSum(G, g, ByMonth, "num_charges"),
          qtr_count |-> WindowSum(G, g, ByQuarter, "num_charges"),
          count_by_category |-> WindowSum(G, g, ByCategory, "num_charges"),
          total_count |-> WindowSum(G, g, Overall, "num_charges"),
          monthly_sales_driven |-> WindowSum(G, g, ByMonth, "num_sales_driven"),
          qtr_sales_driven |-> WindowSum(G, g, ByQuarter, "num_sales_driven"),
          sales_driven_by_category |->
              WindowSum(G, g, ByCategory, "num_sales_driven"),
          total_sales_driven |-> WindowSum(G, g, Overall, "num_sales_driven"),
          monthly_revenue |-> WindowSum(G, g, ByMonth, "revenue"),
          qtr_revenue |-> WindowSum(G, g, ByQuarter, "revenue"),
          revenue_by_category |-> WindowSum(G, g, ByCategory, "revenue"),
          total_revenue |-> WindowSum(G, g, Overall, "revenue")] : g \in G}

\* SELECT ... FROM organizations_before_2022
OrgRows == {[organization_id |-> o] : o \in orgs}

\* The rows of each routine's result, as a bag.
ResultRows(r) ==
    CASE r = "get_monthly_charges_2021" -> charges
      [] r = "get_orgs_before_2022" -> SetToBag(OrgRows)
      [] r = "get_paying_organizations" -> SetToBag(PayingOrganizations)
      [] r = "get_churn_numbers" -> SetToBag(ChurnNumbers)
      [] r = "get_outliers_and_mode" -> SetToBag(OutliersAndMode)
      [] r = "get_groupby_plan" -> SetToBag(GroupByRows("plan"))
      [] r = "get_groupby_type" -> SetToBag(GroupByRows("type"))

\* The ORDER BY clause of each routine as an ascending sort key; the two
\* table dumps have none.
OrderKey(r, row) ==
    CASE r = "get_monthly_charges_2021" -> <<>>
      [] r = "get_orgs_before_2022" -> <<>>
      [] r = "get_paying_organizations" -> <<0 - row.total_revenue_2021>>
      [] r = "get_churn_numbers" ->
            <<0 - row.times_churned, row.times_reactivated>>
      [] r = "get_outliers_and_mode" -> <<0 - row.total_revenue_2021>>
      [] r = "get_groupby_plan" ->
            <<StrRank(row.category), row.month, row.quarter>>
      [] r = "get_groupby_type" ->
            <<StrRank(row.category), row.month, row.quarter>>

LexLess(a, b) ==
    \E i \in 1..Len(a) : a[i] < b[i] /\ \A j \in 1..(i - 1) : a[j] = b[j]

\* The row sequences the engine may return for routine r: every arrangement
\* of the result rows that respects ORDER BY; rows that ORDER BY does not
\* separate come in any order.
QueryResults(r) ==
    LET B == ResultRows(r)
        n == BagCardinality(B)
    IN  {s \in [1..n -> DOMAIN B] :
            /\ \A e \in DOMAIN B : Cardinality({i \in 1..n : s[i] = e}) = B[e]
            /\ \A i, j \in 1..n :
                 i < j => ~LexLess(OrderKey(r, s[j]), OrderKey(r, s[i]))}

\* client.query(sql).to_dataframe() on success: the columns of the SELECT
\* list and the returned rows.
DataFrames(r) == {[columns |-> Columns(r), rows |-> s] : s \in QueryResults(r)}

NoResult == [routine |-> "none", columns |-> <<>>, rows |-> <<>>]

(***************************************************************************)
(* Initial values of the routine threads and of the file system.           *)
(***************************************************************************)
Threads == {1, 2}
MainThread == 1

NoFile == [exists |-> FALSE, header |-> <<>>, rows |-> <<>>]
NoFrame == [columns |-> <<>>, rows |-> <<>>]
NoLine == [file |-> "", location |-> ""]
NoOrigin == [routine |-> "none", data |-> EmptyBag]

ThreadsIdle ==
    /\ pc = [t \in Threads |-> "idle"]
    /\ routine = [t \in Threads |-> "none"]
    /\ name = [t \in Threads |-> ""]
    /\ df = [t \in Threads |-> NoFrame]
    /\ err = [t \in Threads |-> "none"]
    /\ submitted = [t \in Threads |-> 0]
    /\ printed = [t \in Threads |-> 0]
    /\ stdout = [t \in Threads |-> NoLine]
    /\ asof = [t \in Threads |-> EmptyBag]
    /\ before = [t \in Threads |-> [p \in Paths |-> NoFile]]
    /\ calls = 0
    /\ queries = 0

NoFiles ==
    /\ files = [p \in Paths |-> NoFile]
    /\ origin = [p \in Paths |-> NoOrigin]

(***************************************************************************)
(* A query examined on its own: the table is loaded row by row, then one   *)
(* routine's statement is run against it.                                  *)
(***************************************************************************)
InitQuery ==
    /\ saFileEnv = "set" /\ projectEnv = "set" /\ credFile = "valid"
    /\ setup = "ready"
    /\ dirs = [c \in Categories |-> "writable"]
    /\ NoFiles
    /\ ThreadsIdle
    /\ charges = EmptyBag
    /\ result = NoResult

LoadCharge(c) ==
    /\ result = NoResult
    /\ BagCardinality(charges) < MaxCharges
    /\ charges' = charges (+) SetToBag({c})
    /\ UNCHANGED <<envVars, setup, dirs, files, origin, orgs, locals, counters,
                   before, result>>

Examine(r) ==
    /\ result = NoResult
    /\ \E d \in DataFrames(r) :
         result' = [routine |-> r, columns |-> d.columns, rows |-> d.rows]
    /\ UNCHANGED <<envVars, setup, dirs, files, origin, warehouse, locals,
                   counters, before>>

InitRevenue == InitQuery /\ orgs \in SUBSET OrgIds

NextRevenue ==
    \/ \E c \in RevenueCharges : LoadCharge(c)
    \/ \E r \in {"get_paying_organizations", "get_outliers_and_mode",
                 "get_churn_numbers"} : Examine(r)

SpecRevenue == InitRevenue /\ [][NextRevenue]_vars

InitGroupBy == InitQuery /\ orgs = OrgIds

NextGroupBy ==
    \/ \E c \in GroupByCharges : LoadCharge(c)
    \/ \E r \in {"get_groupby_plan", "get_groupby_type"} : Examine(r)

SpecGroupBy == InitGroupBy /\ [][NextGroupBy]_vars

(***************************************************************************)
(* Module-level configuration and client setup (lines 9-22).               *)
(***************************************************************************)
Init ==
    /\ saFileEnv \in {"absent", "set"}
    /\ projectEnv \in {"absent", "set"}
    /\ credFile \in {"missing", "unreadable", "malformed", "valid"}
    /\ setup = "start"
    /\ dirs \in [Categories -> {"missing", "writable"}]
    /\ NoFiles
    /\ ThreadsIdle
    /\ charges = EmptyBag
    /\ orgs = OrgIds
    /\ result = NoResult

\* CredentialsLoad with the key file taken as it is.
CredentialsLoadUnchecked == saFileEnv = "set"

\* Line 19: BASE_DIR / SERVICE_ACCOUNT_FILE raises TypeError when the variable
\* is unset (None); from_service_account_file raises when the file is
\* missing, unreadable or not a service-account key.
CredentialsLoad == saFileEnv = "set" /\ credFile = "valid"

LoadCredentials ==
    /\ setup = "start"
    /\ setup' = IF CredentialsLoad THEN "credentials" ELSE "failed"
    /\ UNCHANGED <<envVars, dirs, files, origin, warehouse, locals, counters,
                   before, result>>

\* Line 22: bigquery.Client(credentials=creds, project=PROJECT_ID).  The
\* script does not look at PROJECT_ID itself; with project=None the client
\* library takes the project from the credentials or the environment and
\* raises only if it finds none.
ClientOutcomes ==
    IF projectEnv = "set" THEN {"ready"} ELSE {"ready", "failed"}

CreateClient ==
    /\ setup = "credentials"
    /\ setup' \in ClientOutcomes
    /\ UNCHANGED <<envVars, dirs, files, origin, warehouse, locals, counters,
                   before, result>>

(***************************************************************************)
(* The environment of a run: the source table grows, and the permissions   *)
(* of an output directory change.                                          *)
(***************************************************************************)
InsertCharge(c) ==
    /\ BagCardinality(charges) < MaxRows
    /\ charges' = charges (+) SetToBag({c})
    /\ UNCHANGED <<envVars, setup, dirs, files, origin, orgs, locals, counters,
                   before, result>>

Chmod(c) ==
    /\ dirs[c] # "missing"
    /\ dirs' = [dirs EXCEPT ![c] = IF @ = "writable" THEN "readonly"
                                   ELSE "writable"]
    /\ UNCHANGED <<envVars, setup, files, origin, warehouse, locals, counters,
                   before, result>>

(***************************************************************************)
(* One extraction routine, run by thread t (the same four statements in    *)
(* all seven routines).                                                    *)
(***************************************************************************)
Dest(t) == Destination(routine[t], name[t])

\* The routines exist only once the module-level code has run to its end.
\* `before' is set by the specification that uses Call.
Call(t, r, n) ==
    /\ setup = "ready"
    /\ pc[t] = "idle"
    /\ calls < MaxCalls
    /\ calls' = calls + 1
    /\ routine' = [routine EXCEPT ![t] = r]
    /\ name' = [name EXCEPT ![t] = n]
    /\ pc' = [pc EXCEPT ![t] = "query"]
    /\ UNCHANGED <<envVars, setup, dirs, files, origin, warehouse, df, err,
                   submitted, printed, stdout, asof, queries, result>>

\* client.query(sql): the job is submitted; the engine accepts it ...
QueryAccepted(t) ==
    /\ pc[t] = "query"
    /\ submitted' = [submitted EXCEPT ![t] = @ + 1]
    /\ queries' = queries + 1
    /\ pc' = [pc EXCEPT ![t] = "fetch"]
    /\ UNCHANGED <<envVars, setup, dirs, files, origin, warehouse, routine,
                   name, df, err, printed, stdout, asof, calls, before, result>>

\* QueryRejected with the rejected job submitted a second time before the
\* exception is let through.
QueryRejectedRetried(t) ==
    /\ pc[t] = "query"
    /\ submitted' = [submitted EXCEPT ![t] = @ + 2]
    /\ queries' = queries + 2
    /\ pc' = [pc EXCEPT ![t] = "raised"]
    /\ err' = [err EXCEPT ![t] = "QueryRejected"]
    /\ UNCHANGED <<envVars, setup, dirs, files, origin, warehouse, routine,
                   name, df, printed, stdout, asof, calls, before, result>>

\* ... or rejects it, and the exception leaves the routine.
QueryRejected(t) ==
    /\ pc[t] = "query"
    /\ submitted' = [submitted EXCEPT ![t] = @ + 1]
    /\ queries' = queries + 1
    /\ pc' = [pc EXCEPT ![t] = "raised"]
    /\ err' = [err EXCEPT ![t] = "QueryRejected"]
    /\ UNCHANGED <<envVars, setup, dirs, files, origin, warehouse, routine,
                   name, df, printed, stdout, asof, calls, before, result>>

\* .to_dataframe(): blocks until the whole result is in memory ...
FetchResult(t) ==
    /\ pc[t] = "fetch"
    /\ \E d \in DataFrames(routine[t]) : df' = [df EXCEPT ![t] = d]
    /\ asof' = [asof EXCEPT ![t] = charges]
    /\ pc' = [pc EXCEPT ![t] = "write"]
    /\ UNCHANGED <<envVars, setup, dirs, files, origin, warehouse, routine,
                   name, err, submitted, printed, stdout, counters, before,
                   result>>

\* ... or until the job fails or times out, and the exception leaves the
\* routine.
FetchFailed(t) ==
    /\ pc[t] = "fetch"
    /\ pc' = [pc EXCEPT ![t] = "raised"]
    /\ err' = [err EXCEPT ![t] = "QueryFailed"]
    /\ UNCHANGED <<envVars, setup, dirs, files, origin, warehouse, routine,
                   name, df, submitted, printed, stdout, asof, counters, before,
                   result>>

\* CanOpen with the permissions of the directory ignored.
CanOpenIfPresent(p) == dirs[p[1]] # "missing"

\* df.to_csv(destination, ...) opens destination with mode 'w'.  Creating a
\* file needs a writable directory; truncating an existing one needs only
\* that the directory exists.
CanOpen(p) ==
    \/ dirs[p[1]] = "writable"
    \/ dirs[p[1]] = "readonly" /\ files[p].exists

\* The file as open(..., 'w') leaves it: present and empty.
Truncated == [exists |-> TRUE, header |-> <<>>, rows |-> <<>>]

\* OpenCsv with the file opened without truncation (mode 'r+' for an existing
\* file).
OpenCsvKeepsContent(t) ==
    /\ pc[t] = "write"
    /\ CanOpen(Dest(t))
    /\ files' = [files EXCEPT ![Dest(t)] = IF @.exists THEN @ ELSE Truncated]
    /\ pc' = [pc EXCEPT ![t] = "writing"]
    /\ UNCHANGED <<envVars, setup, dirs, origin, warehouse, routine, name, df,
                   err, submitted, printed, stdout, asof, counters, before,
                   result>>

OpenCsv(t) ==
    /\ pc[t] = "write"
    /\ CanOpen(Dest(t))
    /\ files' = [files EXCEPT ![Dest(t)] = Truncated]
    /\ pc' = [pc EXCEPT ![t] = "writing"]
    /\ UNCHANGED <<envVars, setup, dirs, origin, warehouse, routine, name, df,
                   err, submitted, printed, stdout, asof, counters, before,
                   result>>

\* OpenFailed with the exception swallowed, so that the routine goes on to its
\* print statement.
OpenFailedSwallowed(t) ==
    /\ pc[t] = "write"
    /\ ~CanOpen(Dest(t))
    /\ pc' = [pc EXCEPT ![t] = "print"]
    /\ UNCHANGED <<envVars, setup, dirs, files, origin, warehouse, routine,
                   name, df, err, submitted, printed, stdout, asof, counters,
                   before, result>>

\* open() raises FileNotFoundError or PermissionError (both OSError, alias
\* IOError) and the exception leaves the routine.
OpenFailed(t) ==
    /\ pc[t] = "write"
    /\ ~CanOpen(Dest(t))
    /\ pc' = [pc EXCEPT ![t] = "raised"]
    /\ err' = [err EXCEPT ![t] = "IOError"]
    /\ UNCHANGED <<envVars, setup, dirs, files, origin, warehouse, routine,
                   name, df, submitted, printed, stdout, asof, counters, before,
                   result>>

\* ToCsv with the header left out when there is no row to write.
ToCsvHeaderWithRows(d) ==
    [exists |-> TRUE, header |-> IF d.rows = <<>> THEN <<>> ELSE d.columns,
     rows |-> d.rows]

\* to_csv(index=False, header=True): one header line of the column names,
\* then one line per row.
ToCsv(d) == [exists |-> TRUE, header |-> d.columns, rows |-> d.rows]

\* The buffer is written from offset 0 of the opened file: lines that another
\* writer put beyond its end meanwhile stay.
WriteAt0(old, new) ==
    [exists |-> TRUE, header |-> new.header,
     rows |-> new.rows \o SubSeq(old.rows, Len(new.rows) + 1, Len(old.rows))]

WriteCsv(t) ==
    /\ pc[t] = "writing"
    /\ files' = [files EXCEPT ![Dest(t)] = WriteAt0(@, ToCsv(df[t]))]
    /\ origin' = [origin EXCEPT
                    ![Dest(t)] = [routine |-> routine[t], data |-> asof[t]]]
    /\ pc' = [pc EXCEPT ![t] = "print"]
    /\ UNCHANGED <<envVars, setup, dirs, warehouse, routine, name, df, err,
                   submitted, printed, stdout, asof, counters, before, result>>

\* print(f'CSV file created. File name is {target_file_name} and location is
\* {<DIR>}')
Confirmation(t) == [file |-> name[t], location |-> DestDir(routine[t])]

PrintConfirmation(t) ==
    /\ pc[t] = "print"
    /\ stdout' = [stdout EXCEPT ![t] = Confirmation(t)]
    /\ printed' = [printed EXCEPT ![t] = @ + 1]
    /\ pc' = [pc EXCEPT ![t] = "done"]
    /\ UNCHANGED <<envVars, setup, dirs, files, origin, warehouse, routine,
                   name, df, err, submitted, asof, counters, before, result>>

\* The routine returns (or its exception reaches the caller); its locals are
\* gone.
Return(t) ==
    /\ pc[t] \in {"done", "raised"}
    /\ pc' = [pc EXCEPT ![t] = "idle"]
    /\ routine' = [routine EXCEPT ![t] = "none"]
    /\ name' = [name EXCEPT ![t] = ""]
    /\ df' = [df EXCEPT ![t] = NoFrame]
    /\ err' = [err EXCEPT ![t] = "none"]
    /\ submitted' = [submitted EXCEPT ![t] = 0]
    /\ printed' = [printed EXCEPT ![t] = 0]
    /\ stdout' = [stdout EXCEPT ![t] = NoLine]
    /\ asof' = [asof EXCEPT ![t] = EmptyBag]
    /\ before' = [before EXCEPT ![t] = [p \in Paths |-> NoFile]]
    /\ UNCHANGED <<envVars, setup, dirs, files, origin, warehouse, counters,
                   result>>

RoutineStep(t) ==
    \/ QueryAccepted(t)
    \/ QueryRejected(t)
    \/ FetchResult(t)
    \/ FetchFailed(t)
    \/ OpenCsv(t)
    \/ OpenFailed(t)
    \/ WriteCsv(t)
    \/ PrintConfirmation(t)
    \/ Return(t)

\* A call from the single-threaded script; the files as the call finds them
\* are remembered for the length of the call.
Invoke(r, n) ==
    /\ Call(MainThread, r, n)
    /\ before' = [before EXCEPT ![MainThread] = files]

(***************************************************************************)
(* A run as the script is written: the module-level code, then one thread  *)
(* calling one routine at a time while the source table may grow.          *)
(***************************************************************************)
Next ==
    \/ LoadCredentials
    \/ CreateClient
    \/ \E c \in PipelineCharges : InsertCharge(c)
    \/ \E r \in Routines, n \in Names : Invoke(r, n)
    \/ RoutineStep(MainThread)

Spec == Init /\ [][Next]_vars

(***************************************************************************)
(* The same run after a successful setup, with the permissions of the      *)
(* output directories changing between and during the calls.               *)
(***************************************************************************)
InitPermissions ==
    /\ saFileEnv = "set" /\ projectEnv = "set" /\ credFile = "valid"
    /\ setup = "ready"
    /\ dirs \in [Categories -> {"missing", "writable"}]
    /\ NoFiles
    /\ ThreadsIdle
    /\ charges \in {SetToBag({c}) : c \in PipelineCharges}
    /\ orgs = OrgIds
    /\ result = NoResult

NextPermissions ==
    \/ \E c \in Categories : Chmod(c)
    \/ \E r \in Routines, n \in Names : Invoke(r, n)
    \/ RoutineStep(MainThread)

SpecPermissions == InitPermissions /\ [][NextPermissions]_vars

(***************************************************************************)
(* Routines called from several threads of one process at once, over a     *)
(* warehouse that stays as it is and output directories that exist.        *)
(***************************************************************************)
InitConcurrent ==
    /\ saFileEnv = "set" /\ projectEnv = "set" /\ credFile = "valid"
    /\ setup = "ready"
    /\ dirs = [c \in Categories |-> "writable"]
    /\ NoFiles
    /\ ThreadsIdle
    /\ charges \in {SetToBag({c}) : c \in PipelineCharges}
    /\ orgs = OrgIds
    /\ result = NoResult

ConcurrentCall(t, r, n) == Call(t, r, n) /\ UNCHANGED before

NextConcurrent ==
    \E t \in Threads :
        \/ \E r \in Routines, n \in Names : ConcurrentCall(t, r, n)
        \/ QueryAccepted(t)
        \/ QueryRejected(t)
        \/ FetchResult(t)
        \/ FetchFailed(t)
        \/ OpenCsv(t)
        \/ WriteCsv(t)
        \/ PrintConfirmation(t)
        \/ Return(t)

SpecConcurrent == InitConcurrent /\ [][NextConcurrent]_vars

(***************************************************************************)
(* What the claims speak about.                                            *)
(***************************************************************************)
RawRoutines == {"get_monthly_charges_2021", "get_orgs_before_2022"}

\* <category_dir>/n as the claims give it: raw for the two table dumps,
\* processed for the other five routines.
ExpectedDir(t) == IF routine[t] \in RawRoutines THEN "raw" ELSE "processed"
ExpectedPath(t) == <<ExpectedDir(t), name[t]>>

\* A CSV file holding exactly the header and the rows of thread t's result.
CompleteFile(t) ==
    [exists |-> TRUE, header |-> Columns(routine[t]), rows |-> df[t].rows]

Occurrences(s, x) == Cardinality({i \in 1..Len(s) : s[i] = x})
Range(s) == {s[i] : i \in 1..Len(s)}

\* The same rows, each as many times, in whatever order.
SameRows(a, b) ==
    /\ Len(a) = Len(b)
    /\ \A x \in Range(a) \cup Range(b) : Occurrences(a, x) = Occurrences(b, x)

QueryErrors == {"QueryRejected", "QueryFailed"}

\* C1: a successful invocation of any of the seven routines with name n
\* creates or replaces exactly one file, at raw/n for the two table dumps and
\* at processed/n for the other five; its header row is the column list of
\* the routine's query and its rows are the result's; no other file under
\* the two directories is created, modified or removed by the invocation
\* (at any point of it).
C1_OneFileAtCategoryPath ==
    \A t \in Threads :
        pc[t] # "idle" =>
            /\ \A p \in Paths \ {ExpectedPath(t)} : files[p] = before[t][p]
            /\ pc[t] \in {"print", "done"} =>
                   files[ExpectedPath(t)] = CompleteFile(t)

C1_Witness ==
    /\ pc[MainThread] = "done"
    /\ routine[MainThread] = "get_orgs_before_2022"
    /\ files[<<"raw", name[MainThread]>>].header[3] = "created_at"
    /\ Len(files[<<"raw", name[MainThread]>>].rows) = 2
    /\ \E p \in Paths \ {ExpectedPath(MainThread)} : files[p].exists

\* C2 (as amended): re-invoking a routine with the same destination name
\* overwrites the prior file: the write leaves exactly the header and rows of
\* the most recent result and nothing of what the file held before (no
\* append); when the prior file came from the same routine over unchanged
\* source data, the new file has the same header and the same rows, though
\* rows the query does not order may come in another order.
C2_OverwriteSameRows ==
    [][\A t \in Threads :
         (pc[t] = "writing" /\ pc'[t] = "print") =>
            LET p == ExpectedPath(t) IN
            /\ files'[p] = CompleteFile(t)
            /\ (before[t][p].exists
                /\ origin[p] = [routine |-> routine[t], data |-> asof[t]]) =>
                   /\ files'[p].header = before[t][p].header
                   /\ SameRows(files'[p].rows, before[t][p].rows)]_vars

C2_Witness ==
    /\ pc[MainThread] = "done"
    /\ routine[MainThread] = "get_monthly_charges_2021"
    /\ before[MainThread][ExpectedPath(MainThread)].header =
           Columns("get_monthly_charges_2021")
    /\ Len(before[MainThread][ExpectedPath(MainThread)].rows) = 0
    /\ Len(files[ExpectedPath(MainThread)].rows) = 1

\* C2 (as stated): ... so two invocations over unchanged source data leave
\* the same file content as one.
C2_SameContent ==
    [][\A t \in Threads :
         (pc[t] = "writing" /\ pc'[t] = "print") =>
            LET p == ExpectedPath(t) IN
            /\ files'[p] = CompleteFile(t)
            /\ (before[t][p].exists
                /\ origin[p] = [routine |-> routine[t], data |-> asof[t]]) =>
                   files'[p] = before[t][p]]_vars

\* C3: when the engine rejects or fails the query (a timeout included), the
\* routine ends with that error handed to its caller, having submitted the
\* query exactly once, having created, modified or removed no file (a file
\* already at the destination keeps its content) and having printed nothing.
C3_QueryFailureWritesNothing ==
    \A t \in Threads :
        /\ err[t] \in QueryErrors =>
               /\ pc[t] = "raised"
               /\ submitted[t] = 1
               /\ files = before[t]
               /\ printed[t] = 0
               /\ stdout[t] = NoLine
        /\ pc[t] = "raised" => err[t] # "none"

C3_Witness ==
    /\ pc[MainThread] = "raised"
    /\ err[MainThread] = "QueryFailed"
    /\ files[ExpectedPath(MainThread)].exists
    /\ Len(files[ExpectedPath(MainThread)].rows) > 0

\* C4 (as amended): if SERVICE_ACCOUNT_FILE is absent from the environment,
\* or the credential file is missing, unreadable or malformed, the run never
\* gets past the module-level setup: no routine is called, no query is
\* submitted and no output file is created.
C4_BadCredentialsStopSetup ==
    (saFileEnv = "absent" \/ credFile # "valid") =>
        /\ setup \in {"start", "failed"}
        /\ calls = 0
        /\ queries = 0
        /\ \A t \in Threads : pc[t] = "idle"
        /\ \A p \in Paths : ~files[p].exists

C4_Witness ==
    /\ setup = "failed"
    /\ saFileEnv = "set"
    /\ credFile = "malformed"

\* C4 (as stated): the same for every required environment value, PROJECT_ID
\* included.
C4_AnyMissingValueStopsSetup ==
    (saFileEnv = "absent" \/ projectEnv = "absent" \/ credFile # "valid") =>
        /\ setup # "ready"
        /\ calls = 0
        /\ queries = 0
        /\ \A t \in Threads : pc[t] = "idle"
        /\ \A p \in Paths : ~files[p].exists

\* C5 (as amended): when the routine reaches its write with the destination
\* directory missing, or not writable while no file exists yet at the
\* destination, it fails with an I/O error, no file is created or changed and
\* nothing is printed; an I/O error is raised only at the write, after the
\* query was submitted and its whole result materialised.
C5_UnusableDirectoryFails ==
    [][\A t \in Threads :
         /\ (/\ pc[t] = "write"
             /\ pc'[t] # "write"
             /\ \/ dirs[ExpectedDir(t)] = "missing"
                \/ /\ dirs[ExpectedDir(t)] = "readonly"
                   /\ ~files[ExpectedPath(t)].exists) =>
                /\ pc'[t] = "raised"
                /\ err'[t] = "IOError"
                /\ files' = files
                /\ printed'[t] = 0
                /\ stdout'[t] = NoLine
         /\ (err'[t] = "IOError" /\ err[t] # "IOError") =>
                /\ pc[t] = "write"
                /\ submitted[t] = 1
                /\ df[t].columns = Columns(routine[t])]_vars

C5_Witness ==
    /\ pc[MainThread] = "raised"
    /\ err[MainThread] = "IOError"
    /\ dirs[ExpectedDir(MainThread)] = "readonly"
    /\ ~files[ExpectedPath(MainThread)].exists
    /\ submitted[MainThread] = 1

\* C5 (as stated): the same whenever the destination directory is missing or
\* not writable.
C5_NotWritableFails ==
    [][\A t \in Threads :
         (/\ pc[t] = "write"
          /\ pc'[t] # "write"
          /\ dirs[ExpectedDir(t)] \in {"missing", "readonly"}) =>
             /\ pc'[t] = "raised"
             /\ err'[t] = "IOError"
             /\ files' = files
             /\ printed'[t] = 0]_vars

\* C6 (as amended): invocations share nothing but the output files.  In any
\* order or interleaving, a step of an invocation touches no file other than
\* its own destination <category_dir>/<name>, and only its open and its write
\* touch that; the write leaves there exactly its own complete result unless
\* another invocation wrote the same file after this one opened it.  (Paths
\* are distinct only where category or name differ.)
C6_OnlyOwnDestination ==
    [][\A t \in Threads :
         pc'[t] # pc[t] =>
            /\ \A p \in Paths \ {ExpectedPath(t)} : files'[p] = files[p]
            /\ pc[t] \notin {"write", "writing"} => files' = files
            /\ (pc[t] = "writing" /\ files[ExpectedPath(t)] = Truncated) =>
                   files'[ExpectedPath(t)] = CompleteFile(t)]_vars

C6_Witness ==
    /\ pc[1] = "done" /\ pc[2] = "done"
    /\ routine[1] = "get_groupby_plan" /\ routine[2] = "get_groupby_type"
    /\ name[1] # name[2]
    /\ files[ExpectedPath(1)] = CompleteFile(1)
    /\ files[ExpectedPath(2)] = CompleteFile(2)

\* C6 (as stated): invocations of different routines never write to the same
\* path, and every output file ends up holding exactly the complete result of
\* the routine that targeted it.
C6_DistinctPathPerRoutine ==
    /\ \A t, u \in Threads :
          (pc[t] # "idle" /\ pc[u] # "idle" /\ routine[t] # routine[u]) =>
              Dest(t) # Dest(u)
    /\ \A t \in Threads :
          pc[t] = "done" => files[Dest(t)] = CompleteFile(t)

\* The rows of the examined group-by result, and within them the months of a
\* category and the categories.
Rows == Range(result.rows)
MonthsOf(k) == {x.month : x \in {y \in Rows : y.category = k}}
CategoriesOut == {x.category : x \in Rows}
RowAt(k, m) == CHOOSE x \in Rows : x.category = k /\ x.month = m
RowOf(k) == CHOOSE x \in Rows : x.category = k

\* The subtotal of `monthly` over the distinct months of each category is that
\* category's `byCategory`, and `byCategory` over the distinct categories is
\* `total`, on every row.
Consistent(monthly, byCategory, total) ==
    \A x \in Rows :
        /\ SumFn([m \in MonthsOf(x.category) |-> RowAt(x.category, m)[monthly]])
               = x[byCategory]
        /\ SumFn([k \in CategoriesOut |-> RowOf(k)[byCategory]]) = x[total]

\* C7: in the output of get_groupby_plan and get_groupby_type, monthly_count
\* summed over the distinct months of a category is the category's
\* count_by_plan / count_by_type, which summed over the distinct categories is
\* total_count, the number of source charge rows; likewise for the
\* sales-driven and the revenue columns.
C7_SubtotalsConsistent ==
    result.routine \in {"get_groupby_plan", "get_groupby_type"} =>
        /\ Consistent("monthly_count", "count_by_category", "total_count")
        /\ Consistent("monthly_sales_driven", "sales_driven_by_category",
                      "total_sales_driven")
        /\ Consistent("monthly_revenue", "revenue_by_category", "total_revenue")
        /\ \A x \in Rows : x.total_count = BagCardinality(charges)

C7_Witness ==
    /\ result.routine = "get_groupby_plan"
    /\ Cardinality(CategoriesOut) = 2
    /\ MonthsOf("premium") = {1, 2}
    /\ RowOf("premium").count_by_category = 2
    /\ RowAt("premium", 1).monthly_count = 1
    /\ RowOf("premium").total_count = 3
    /\ RowOf("premium").total_revenue = 150

\* SUM(amount_usd) of an organization's charges.
RevenueOf(o) ==
    SumFn([c \in {x \in DOMAIN charges : x.organization_id = o} |->
              charges[c] * c.amount_usd])

Listed(o) == \E x \in Range(result.rows) : x.organization_id = o

ExampleCharge(o, a) ==
    [organization_id |-> o, type |-> "Retained", plan |-> "premium",
     charged_on |-> 1, is_sales_driven |-> FALSE, amount_usd |-> a]

\* The source rows {org=A, amount=100}, {org=A, amount=-50}, {org=B, amount=0}.
ExampleCharges ==
    SetToBag({ExampleCharge("A", 100), ExampleCharge("A", -50),
              ExampleCharge("B", 0)})

OnlyAWith50 ==
    result.rows = <<[organization_id |-> "A", total_revenue_2021 |-> 50]>>

\* C8: get_paying_organizations outputs an organization exactly when its
\* amount_usd charges sum to more than 0, with total_revenue_2021 equal to
\* that sum; for the rows {A, 100}, {A, -50}, {B, 0} the output is only A
\* with total revenue 50.  (The INNER JOIN drops an organization that has no
\* row in organizations_before_2022, whatever its revenue.)
C8_PositiveSumIffListed ==
    result.routine = "get_paying_organizations" =>
        /\ \A o \in OrgIds : Listed(o) <=> RevenueOf(o) > 0
        /\ \A i \in 1..Len(result.rows) :
              result.rows[i].total_revenue_2021 =
                  RevenueOf(result.rows[i].organization_id)
        /\ charges = ExampleCharges => OnlyAWith50

\* C9: when the query succeeds with zero rows the routine still completes:
\* the file at the destination exists and holds the header row alone; with
\* such a result the routine fails only if the destination cannot be opened.
C9_EmptyResultHeaderOnly ==
    \A t \in Threads :
        (df[t].columns # <<>> /\ df[t].rows = <<>>) =>
            /\ pc[t] \in {"print", "done"} =>
                   files[ExpectedPath(t)] =
                       [exists |-> TRUE, header |-> Columns(routine[t]),
                        rows |-> <<>>]
            /\ pc[t] = "raised" =>
                   (err[t] = "IOError" /\ dirs[ExpectedDir(t)] = "missing")

C9_Witness ==
    /\ pc[MainThread] = "done"
    /\ routine[MainThread] = "get_paying_organizations"
    /\ df[MainThread].rows = <<>>
    /\ Len(files[ExpectedPath(MainThread)].header) = 16
    /\ files[ExpectedPath(MainThread)].rows = <<>>

\* C10: within an invocation the steps come in the order submit query,
\* receive the full result, write the CSV, print the confirmation: nothing is
\* written before the result is in, exactly one confirmation (file name and
\* category directory) is printed per successful invocation and only once the
\* file is completely written, and an invocation that fails at the query or
\* at the write prints none.
C10_ConfirmationLast ==
    \A t \in Threads :
        /\ printed[t] = IF pc[t] = "done" THEN 1 ELSE 0
        /\ pc[t] = "done" =>
               /\ stdout[t] = [file |-> name[t], location |-> ExpectedDir(t)]
               /\ err[t] = "none"
        /\ pc[t] # "done" => stdout[t] = NoLine
        /\ pc[t] \in {"fetch", "write", "writing", "print", "done"} =>
               submitted[t] = 1
        /\ pc[t] \in {"query", "fetch"} => df[t] = NoFrame /\ submitted[t] <= 1
        /\ pc[t] \in {"write", "writing", "print", "done"} =>
               df[t].columns = Columns(routine[t])
        /\ pc[t] \in {"query", "fetch", "write"} => files = before[t]
        /\ pc[t] \in {"print", "done"} =>
               files[ExpectedPath(t)] = CompleteFile(t)

C10_Witness ==
    /\ pc[MainThread] = "done"
    /\ printed[MainThread] = 1
    /\ stdout[MainThread] = [file |-> "b.csv", location |-> "processed"]
    /\ files[<<"processed", "b.csv">>].exists

====
